---- MODULE Spec2Model ----
(***************************************************************************)
(* Model of src/servers/swap_rpc.rs: the JSON-RPC swap endpoint, the       *)
(* round scheduler thread spawned by listen, and listen itself (the        *)
(* coordinator), all sharing one Arc<Mutex<dyn SwapServer>>.               *)
(***************************************************************************)
EXTENDS Integers, Sequences, FiniteSets, TLC

(* ---------------------------- bounds ---------------------------------- *)
\* number of transport worker threads serving requests concurrently
NumHandlers == 2
\* largest configured server_config.interval_s explored (0 is included)
MaxInterval == 2
\* the tick and round history counters saturate here
MaxTicks == 5
\* the counters of ticks and rounds after the stop signal saturate here
LateCap == 2

Handlers == 1..NumHandlers

(* ------------------------- wire constants ----------------------------- *)
\* jsonrpc_core ErrorCode::InvalidParams, as the tests expect it on the wire
InvalidParams == -32602
\* jsonrpc_core ErrorCode::InternalError
InternalError == -32603

V1Path == "/v1"
Paths == {"/v1", "/v2"}
\* SwapReq's fields in declaration order
FieldOrder == <<"onion", "comsig">>
FieldNames == {FieldOrder[i] : i \in 1..Len(FieldOrder)}
\* a request: the URI it is addressed to and the fields its params object holds
Requests == [path : Paths, fields : SUBSET FieldNames]
NoRequest == [path |-> "", fields |-> {}]

\* what an engine call did: the variant and the value it carries
Outcome(variant, detail) == [variant |-> variant, detail |-> detail]
OkOutcome == Outcome("Ok", "")
PanicOutcome == Outcome("Panic", "")
NoOutcome == Outcome("none", "")
\* commitments, written as {:?} prints them
Commits == {"Commitment(08c1)", "Commitment(09d2)"}
\* SwapError values the engine may return from swap: CoinNotFound { commit },
\* UnknownError(String), and a variant standing for every other one
SwapErrors ==
    {Outcome("CoinNotFound", c) : c \in Commits}
        \cup {Outcome("Validation", "Invalid payload"),
              Outcome("UnknownError", "storage failure")}
\* what a call of SwapServer::swap can do: return Ok, return Err(e), or panic
SwapOutcomes == {OkOutcome, PanicOutcome} \cup SwapErrors
\* what a call of SwapServer::execute_round can do
RoundOutcomes == {"Ok", "Err", "Panic"}

VARIABLES
    interval_s,  \* server_config.interval_s
    stop_state,  \* StopState::is_stopped()
    transport,   \* the jsonrpc_http_server::Server: "open" or "closed"
    holder,      \* owners of the MutexGuard of server ({} when unlocked)
    poisoned,    \* the Mutex's poison flag
    spc,         \* position of the round thread
    secs,        \* the round thread's counter
    ticks,       \* history: completed sleeps (saturating at MaxTicks)
    rounds,      \* history: execute_round invocations (saturating)
    lastRound,   \* history: how the latest finished round ended
    lateTicks,   \* history: sleeps completed with the stop signal set and
                 \* not yet observed (0 again once it is observed)
    lateRounds,  \* history: rounds invoked with the stop signal set and not
                 \* yet observed
    cpc,         \* position of listen after the spawn
    events,      \* history: the shutdown events of this layer, in order
    hpc,         \* position of each request handler
    hreq,        \* the request each handler is serving
    hacq,        \* lock() calls on the engine mutex for that request
    hcalls,      \* engine swap invocations for that request
    answered     \* history: the exchange finished last

vars == <<interval_s, stop_state, transport, holder, poisoned, spc, secs, ticks,
          rounds, lastRound, lateTicks, lateRounds, cpc, events, hpc, hreq, hacq,
          hcalls, answered>>

schedVars == <<spc, secs, ticks, rounds, lastRound, lateTicks, lateRounds>>
handlerVars == <<hpc, hreq, hacq, hcalls, answered>>

Sched == <<"sched", 0>>
Handler(h) == <<"handler", h>>

Min(a, b) == IF a < b THEN a ELSE b

(* --------------------------- responses -------------------------------- *)
\* (code is 0 in a response that carries no JSON-RPC error)
Response(kind, code, body) == [kind |-> kind, code |-> code, body |-> body]
NoResponse == Response("none", 0, "")
\* the connection of a handler whose thread panicked is dropped unanswered
Dropped == Response("dropped", 0, "")
BadRequest == Response("http400", 0, "Only v1 supported")
Success == Response("result", 0, "success")

\* a finished exchange: the request, what the engine's swap did for it
\* ("none" when it was not called), the response, and how often the handler
\* called lock() and the engine's swap for it
Exchange(req, res, resp, acq, calls) ==
    [req |-> req, res |-> res, resp |-> resp, acq |-> acq, calls |-> calls]
NoExchange == Exchange(NoRequest, NoOutcome, NoResponse, 0, 0)

\* SwapError's Display text
Describe(e) ==
    IF e.variant = "CoinNotFound"
    THEN "Output " \o e.detail \o " does not exist, or is already spent."
    ELSE e.detail

\* mutant: the UnknownError arm is missing, every error is invalid-params
ErrorFrom_NoInternalArm(e) ==
    Response("error", InvalidParams, Describe(e))

\* impl From<SwapError> for Error
ErrorFrom(e) ==
    IF e.variant = "UnknownError"
    THEN Response("error", InternalError, Describe(e))
    ELSE Response("error", InvalidParams, Describe(e))

\* mutant: the success value is not the marker string
SwapResult_WrongMarker(res) ==
    IF res = OkOutcome THEN Response("result", 0, "ok") ELSE ErrorFrom(res)

\* the body of RPCSwapServer::swap after the engine call returned res
SwapResult(res) ==
    IF res = OkOutcome THEN Success ELSE ErrorFrom(res)

\* mutant: the middleware lets every URI through
Middleware_AnyPath(req) == TRUE

\* the request middleware of start_http
Middleware(req) == req.path = V1Path

\* derived Deserialize for SwapReq: the first field, in declaration order,
\* that the params object lacks ("" when none is missing)
RECURSIVE FirstMissing(_, _)
FirstMissing(fields, i) ==
    IF i > Len(FieldOrder) THEN ""
    ELSE IF FieldOrder[i] \notin fields THEN FieldOrder[i]
    ELSE FirstMissing(fields, i + 1)

\* mutant: comsig is treated as optional, only onion is required
MissingField_OnionOnly(req) ==
    IF "onion" \notin req.fields THEN "onion" ELSE ""

MissingField(req) == FirstMissing(req.fields, 1)

\* the invalid-params error the dispatcher answers a failed parse with (the
\* wire text quotes the field name in backquotes, written as ' here)
ParseError(field) ==
    Response("error", InvalidParams,
             "Invalid params: missing field '" \o field \o "'.")

(* ----------------------------- Init ----------------------------------- *)
Init ==
    /\ interval_s \in 0..MaxInterval
    /\ stop_state = FALSE
    /\ transport = "open"
    /\ holder = {}
    /\ poisoned = FALSE
    /\ spc = "check"
    /\ secs = 0
    /\ ticks = 0
    /\ rounds = 0
    /\ lastRound = "none"
    /\ lateTicks = 0
    /\ lateRounds = 0
    /\ cpc = "wait"
    /\ events = <<>>
    /\ hpc = [h \in Handlers |-> "idle"]
    /\ hreq = [h \in Handlers |-> NoRequest]
    /\ hacq = [h \in Handlers |-> 0]
    /\ hcalls = [h \in Handlers |-> 0]
    /\ answered = NoExchange

(* ------------------------ request handlers ---------------------------- *)
\* what the transport and the dispatcher do with a request before the
\* method body runs: the position the handler is left in and its response
Dispatch(req) ==
    IF ~Middleware(req) THEN [pc |-> "idle", resp |-> BadRequest]
    ELSE IF MissingField(req) # ""
    THEN [pc |-> "idle", resp |-> ParseError(MissingField(req))]
    ELSE [pc |-> "lock", resp |-> NoResponse]

\* a worker thread of the open transport takes a request up to the method
\* body, or answers it at once when the middleware or the parse rejects it
HandleRequest(h) ==
    /\ hpc[h] = "idle"
    /\ transport = "open"
    /\ \E req \in Requests :
          /\ hpc' = [hpc EXCEPT ![h] = Dispatch(req).pc]
          /\ IF Dispatch(req).pc = "lock"
             THEN /\ hreq' = [hreq EXCEPT ![h] = req]
                  /\ UNCHANGED answered
             ELSE /\ answered' = Exchange(req, NoOutcome, Dispatch(req).resp, 0, 0)
                  /\ UNCHANGED hreq
    /\ UNCHANGED <<interval_s, stop_state, transport, holder, poisoned,
                   schedVars, cpc, events, hacq, hcalls>>

\* self.server.lock().unwrap() followed by the start of .swap(..): a poisoned
\* mutex makes unwrap panic, otherwise the guard is held for the engine call
HandlerLock(h) ==
    /\ hpc[h] = "lock"
    /\ holder = {}
    /\ IF poisoned
       THEN /\ hpc' = [hpc EXCEPT ![h] = "idle"]
            /\ answered' = Exchange(hreq[h], NoOutcome, Dropped, hacq[h] + 1,
                                    hcalls[h])
            /\ hreq' = [hreq EXCEPT ![h] = NoRequest]
            /\ hacq' = [hacq EXCEPT ![h] = 0]
            /\ UNCHANGED <<holder, hcalls>>
       ELSE /\ hpc' = [hpc EXCEPT ![h] = "swap"]
            /\ holder' = holder \cup {Handler(h)}
            /\ hacq' = [hacq EXCEPT ![h] = @ + 1]
            /\ hcalls' = [hcalls EXCEPT ![h] = @ + 1]
            /\ UNCHANGED <<answered, hreq>>
    /\ UNCHANGED <<interval_s, stop_state, transport, poisoned, schedVars,
                   cpc, events>>

\* the engine's swap ends: the temporary guard is dropped at the end of the
\* statement (poisoning the mutex when the call unwinds), ? returns the
\* converted error, otherwise the success value is returned
HandlerSwapReturn(h) ==
    /\ hpc[h] = "swap"
    /\ \E res \in SwapOutcomes :
          /\ poisoned' = (poisoned \/ res = PanicOutcome)
          /\ answered' = Exchange(hreq[h], res,
                                  IF res = PanicOutcome THEN Dropped
                                  ELSE SwapResult(res),
                                  hacq[h], hcalls[h])
    /\ holder' = holder \ {Handler(h)}
    /\ hpc' = [hpc EXCEPT ![h] = "idle"]
    /\ hreq' = [hreq EXCEPT ![h] = NoRequest]
    /\ hacq' = [hacq EXCEPT ![h] = 0]
    /\ hcalls' = [hcalls EXCEPT ![h] = 0]
    /\ UNCHANGED <<interval_s, stop_state, transport, schedVars, cpc, events>>

(* --------------------------- round thread ----------------------------- *)
StopObserved == \E i \in 1..Len(events) : events[i] = "stop_observed"

\* mutant: the loop also ends when it finds the transport closed
SchedCheck_StopOnClosed ==
    /\ spc = "check"
    /\ IF stop_state
       THEN /\ spc' = "close"
            /\ events' = Append(events, "stop_observed")
            /\ lateTicks' = 0
            /\ lateRounds' = 0
       ELSE /\ spc' = IF transport = "closed" THEN "done" ELSE "sleep"
            /\ UNCHANGED <<events, lateTicks, lateRounds>>
    /\ UNCHANGED <<interval_s, stop_state, transport, holder, poisoned, secs,
                   ticks, rounds, lastRound, cpc, handlerVars>>

\* if stop_state.is_stopped() { .. }
SchedCheck ==
    /\ spc = "check"
    /\ IF stop_state
       THEN /\ spc' = "close"
            /\ events' = Append(events, "stop_observed")
            /\ lateTicks' = 0
            /\ lateRounds' = 0
       ELSE /\ spc' = "sleep"
            /\ UNCHANGED <<events, lateTicks, lateRounds>>
    /\ UNCHANGED <<interval_s, stop_state, transport, holder, poisoned, secs,
                   ticks, rounds, lastRound, cpc, handlerVars>>

\* mutant: the transport is closed but the loop is not left
SchedClose_NoBreak ==
    /\ spc = "close"
    /\ transport' = "closed"
    /\ events' = Append(events, "transport_closed")
    /\ spc' = "sleep"
    /\ UNCHANGED <<interval_s, stop_state, holder, poisoned, secs, ticks,
                   rounds, lastRound, lateTicks, lateRounds, cpc, handlerVars>>

\* close_handle.close(); break;
SchedClose ==
    /\ spc = "close"
    /\ transport' = "closed"
    /\ events' = Append(events, "transport_closed")
    /\ spc' = "done"
    /\ UNCHANGED <<interval_s, stop_state, holder, poisoned, secs, ticks,
                   rounds, lastRound, lateTicks, lateRounds, cpc, handlerVars>>

\* mutant: the counter wraps one tick late (off by one)
SchedTick_OffByOne ==
    /\ spc = "sleep"
    /\ ticks' = Min(ticks + 1, MaxTicks)
    /\ lateTicks' = IF stop_state THEN Min(lateTicks + 1, LateCap) ELSE lateTicks
    /\ IF interval_s = 0
       THEN /\ spc' = "panicked"
            /\ UNCHANGED secs
       ELSE /\ secs' = (secs + 1) % (interval_s + 1)
            /\ spc' = IF secs' = 0 THEN "lock" ELSE "check"
    /\ UNCHANGED <<interval_s, stop_state, transport, holder, poisoned, rounds,
                   lastRound, lateRounds, cpc, events, handlerVars>>

\* mutant: the stop signal is checked only after a round, not every tick
SchedTick_NoRecheck ==
    /\ spc = "sleep"
    /\ ticks' = Min(ticks + 1, MaxTicks)
    /\ lateTicks' = IF stop_state THEN Min(lateTicks + 1, LateCap) ELSE lateTicks
    /\ IF interval_s = 0
       THEN /\ spc' = "panicked"
            /\ UNCHANGED secs
       ELSE /\ secs' = (secs + 1) % interval_s
            /\ spc' = IF secs' = 0 THEN "lock" ELSE "sleep"
    /\ UNCHANGED <<interval_s, stop_state, transport, holder, poisoned, rounds,
                   lastRound, lateRounds, cpc, events, handlerVars>>

\* sleep(1s); secs = (secs + 1) % interval_s; if secs == 0 { .. }
\* (secs < interval_s, so secs + 1 cannot overflow; the remainder by an
\* interval_s of zero panics and ends the thread)
SchedTick ==
    /\ spc = "sleep"
    /\ ticks' = Min(ticks + 1, MaxTicks)
    /\ lateTicks' = IF stop_state THEN Min(lateTicks + 1, LateCap) ELSE lateTicks
    /\ IF interval_s = 0
       THEN /\ spc' = "panicked"
            /\ UNCHANGED secs
       ELSE /\ secs' = (secs + 1) % interval_s
            /\ spc' = IF secs' = 0 THEN "lock" ELSE "check"
    /\ UNCHANGED <<interval_s, stop_state, transport, holder, poisoned, rounds,
                   lastRound, lateRounds, cpc, events, handlerVars>>

\* mutant: the round runs on the engine without waiting for the mutex
SchedLock_Unlocked ==
    /\ spc = "lock"
    /\ IF poisoned
       THEN /\ spc' = "panicked"
            /\ UNCHANGED <<holder, rounds, lateRounds>>
       ELSE /\ spc' = "round"
            /\ holder' = holder \cup {Sched}
            /\ rounds' = Min(rounds + 1, MaxTicks)
            /\ lateRounds' = IF stop_state THEN Min(lateRounds + 1, LateCap)
                             ELSE lateRounds
    /\ UNCHANGED <<interval_s, stop_state, transport, poisoned, secs, ticks,
                   lastRound, lateTicks, cpc, events, handlerVars>>

\* server.lock().unwrap() followed by the start of .execute_round()
SchedLock ==
    /\ spc = "lock"
    /\ holder = {}
    /\ IF poisoned
       THEN /\ spc' = "panicked"
            /\ UNCHANGED <<holder, rounds, lateRounds>>
       ELSE /\ spc' = "round"
            /\ holder' = holder \cup {Sched}
            /\ rounds' = Min(rounds + 1, MaxTicks)
            /\ lateRounds' = IF stop_state THEN Min(lateRounds + 1, LateCap)
                             ELSE lateRounds
    /\ UNCHANGED <<interval_s, stop_state, transport, poisoned, secs, ticks,
                   lastRound, lateTicks, cpc, events, handlerVars>>

\* mutant: the round's Err is unwrapped instead of discarded
SchedRoundReturn_Unwrap ==
    /\ spc = "round"
    /\ \E res \in RoundOutcomes :
          /\ lastRound' = res
          /\ poisoned' = (poisoned \/ res # "Ok")
          /\ spc' = IF res = "Ok" THEN "check" ELSE "panicked"
    /\ holder' = holder \ {Sched}
    /\ UNCHANGED <<interval_s, stop_state, transport, secs, ticks, rounds,
                   lateTicks, lateRounds, cpc, events, handlerVars>>

\* mutant: the guard is kept in a variable that outlives the round
SchedRoundReturn_KeepGuard ==
    /\ spc = "round"
    /\ \E res \in RoundOutcomes :
          /\ lastRound' = res
          /\ poisoned' = (poisoned \/ res = "Panic")
          /\ spc' = IF res = "Panic" THEN "panicked" ELSE "check"
    /\ holder' = IF spc' = "panicked" THEN holder \ {Sched} ELSE holder
    /\ UNCHANGED <<interval_s, stop_state, transport, secs, ticks, rounds,
                   lateTicks, lateRounds, cpc, events, handlerVars>>

\* execute_round ends: let _ = discards its Result and the loop goes on; a
\* panic unwinds the thread and poisons the mutex
SchedRoundReturn ==
    /\ spc = "round"
    /\ \E res \in RoundOutcomes :
          /\ lastRound' = res
          /\ poisoned' = (poisoned \/ res = "Panic")
          /\ spc' = IF res = "Panic" THEN "panicked" ELSE "check"
    /\ holder' = holder \ {Sched}
    /\ UNCHANGED <<interval_s, stop_state, transport, secs, ticks, rounds,
                   lateTicks, lateRounds, cpc, events, handlerVars>>

(* ------------------------- listen (coordinator) ----------------------- *)
\* mutant: listen does not wait for the transport to close
CoordWait_NoWait ==
    /\ cpc = "wait"
    /\ cpc' = "join"
    /\ events' = Append(events, "wait_unblocked")
    /\ UNCHANGED <<interval_s, stop_state, transport, holder, poisoned,
                   schedVars, handlerVars>>

\* http_server.wait() returns once the transport is closed
CoordWait ==
    /\ cpc = "wait"
    /\ transport = "closed"
    /\ cpc' = "join"
    /\ events' = Append(events, "wait_unblocked")
    /\ UNCHANGED <<interval_s, stop_state, transport, holder, poisoned,
                   schedVars, handlerVars>>

\* mutant: listen does not join the round thread
CoordJoin_NoJoin ==
    /\ cpc = "join"
    /\ cpc' = "joined"
    /\ events' = Append(events, "joined")
    /\ UNCHANGED <<interval_s, stop_state, transport, holder, poisoned,
                   schedVars, handlerVars>>

\* round_handle.join().unwrap(): waits for the thread to end and panics if
\* the thread panicked
CoordJoin ==
    /\ cpc = "join"
    /\ spc \in {"done", "panicked"}
    /\ IF spc = "done"
       THEN /\ cpc' = "joined"
            /\ events' = Append(events, "joined")
       ELSE /\ cpc' = "panicked"
            /\ UNCHANGED events
    /\ UNCHANGED <<interval_s, stop_state, transport, holder, poisoned,
                   schedVars, handlerVars>>

\* Ok(())
CoordReturn ==
    /\ cpc = "joined"
    /\ cpc' = "returned"
    /\ events' = Append(events, "returned")
    /\ UNCHANGED <<interval_s, stop_state, transport, holder, poisoned,
                   schedVars, handlerVars>>

(* --------------------------- environment ------------------------------ *)
\* the process-wide StopState is stopped
SetStop ==
    /\ ~stop_state
    /\ stop_state' = TRUE
    /\ UNCHANGED <<interval_s, transport, holder, poisoned, schedVars, cpc,
                   events, handlerVars>>

\* the transport is closed by a close call other than the round thread's
ExternalClose ==
    /\ transport = "open"
    /\ transport' = "closed"
    /\ UNCHANGED <<interval_s, stop_state, holder, poisoned, schedVars, cpc,
                   events, handlerVars>>

Next ==
    \/ SetStop
    \/ SchedCheck
    \/ SchedClose
    \/ SchedTick
    \/ SchedLock
    \/ SchedRoundReturn
    \/ CoordWait
    \/ CoordJoin
    \/ CoordReturn
    \/ \E h \in Handlers : HandleRequest(h)
    \/ \E h \in Handlers : HandlerLock(h)
    \/ \E h \in Handlers : HandlerSwapReturn(h)

Spec == Init /\ [][Next]_vars

\* the same program with the transport also closable from outside listen
NextExt == Next \/ ExternalClose

SpecExt == Init /\ [][NextExt]_vars

(* ============================ properties ============================== *)
\* the callers that are inside an engine operation
EngineOps ==
    {Handler(h) : h \in {g \in Handlers : hpc[g] = "swap"}}
        \cup (IF spc = "round" THEN {Sched} ELSE {})

\* C1: at every instant at most one engine operation (a handler's swap or
\* the scheduler's execute_round) is in progress, and it is the guard's owner.
C1_AtMostOneEngineOp ==
    /\ Cardinality(EngineOps) <= 1
    /\ EngineOps = holder

\* C1 witness: a swap is running while the scheduler and another handler
\* both wait for the mutex.
C1_Witness ==
    /\ spc = "lock"
    /\ \E h \in Handlers, g \in Handlers :
          h # g /\ hpc[h] = "swap" /\ hpc[g] = "lock"

\* C2 (as claimed): no failure of an engine operation leaves the mutex
\* poisoned, and a failed swap is propagated to its caller as an error.
C2_FailureLeavesGateUsable ==
    /\ ~poisoned
    /\ (answered.res \notin {NoOutcome, OkOutcome}
           => answered.resp = ErrorFrom(answered.res))

\* C3: while the round thread runs with interval_s = N > 0, execute_round has
\* been invoked once per N completed ticks: a round is (about to be) invoked
\* only on a tick that is a positive multiple of N, and at every other point
\* of the loop the number of rounds is ticks \div N. With N = 0 no round runs.
C3_RoundOncePerInterval ==
    /\ (interval_s = 0 => rounds = 0)
    /\ (interval_s > 0 /\ ticks < MaxTicks) =>
          CASE spc \in {"check", "sleep", "close", "done"} ->
                   rounds = ticks \div interval_s
            [] spc = "lock" ->
                   /\ ticks > 0 /\ ticks % interval_s = 0
                   /\ rounds = (ticks \div interval_s) - 1
            [] spc = "round" ->
                   /\ ticks > 0 /\ ticks % interval_s = 0
                   /\ rounds = ticks \div interval_s
            [] OTHER -> TRUE

\* C3 witness: with N = 2 the second round is running at tick 4 = 2N.
C3_Witness ==
    interval_s = 2 /\ ticks = 4 /\ rounds = 2 /\ spc = "round"

\* C4: once the round thread has observed the stop signal it is in (or about
\* to enter) its terminal state, which it never leaves, and no further round
\* is invoked.
C4_NoRoundAfterStopObserved ==
    [][/\ StopObserved' => spc' \in {"close", "done"}
       /\ StopObserved => (rounds' = rounds /\ spc' # "round")
       /\ spc = "done" => spc' = "done"]_vars

\* C4 witness: the thread has stopped after having run rounds.
C4_Witness ==
    StopObserved /\ spc = "done" /\ rounds >= 2

\* C5: the step in which a round returns Err leaves the round thread at the
\* head of its loop with its counter, the transport and the mutex as a
\* successful round leaves them.
C5_FailedRoundKeepsRunning ==
    [][(spc = "round" /\ spc' # "round" /\ lastRound' = "Err") =>
          /\ spc' = "check"
          /\ secs' = secs
          /\ transport' = transport
          /\ poisoned' = poisoned
          /\ holder' = {}]_vars

\* C5 witness: a further round is running after a round that failed.
C5_Witness ==
    lastRound = "Err" /\ spc = "round" /\ rounds >= 2

ShutdownOrder ==
    <<"stop_observed", "transport_closed", "wait_unblocked", "joined",
      "returned">>

IsPrefix(s, t) ==
    /\ Len(s) <= Len(t)
    /\ \A i \in 1..Len(s) : s[i] = t[i]

\* C6: the shutdown events happen in the order stop observed, transport
\* closed by the round thread, wait unblocked, round thread joined, listen
\* returned; and listen has returned only with the transport closed and the
\* round thread exited.
C6_ShutdownOrder ==
    /\ IsPrefix(events, ShutdownOrder)
    /\ cpc = "returned" =>
          (transport = "closed" /\ spc = "done" /\ events = ShutdownOrder)

\* C6 witness: listen has returned.
C6_Witness ==
    cpc = "returned" /\ events = ShutdownOrder

\* C7 (as claimed): whenever the round thread has terminated, for whatever
\* reason, the transport is closed.
C7_StoppedImpliesClosed ==
    spc \in {"done", "panicked"} => transport = "closed"

\* C8: in every state where listen has returned, no execute_round call is in
\* progress (also when the transport was closed from outside).
C8_NoReturnMidRound ==
    cpc = "returned" => (spc # "round" /\ Sched \notin holder)

\* C8 witness: listen has returned after rounds were executed.
C8_Witness ==
    cpc = "returned" /\ rounds >= 1 /\ lastRound # "none"

WellFormed(req) == req.path = V1Path /\ req.fields = FieldNames

\* C9: a well-formed request whose engine swap returned Ok is answered with
\* exactly the result "success" and no error.
C9_SuccessMarker ==
    (WellFormed(answered.req) /\ answered.res = OkOutcome) =>
        answered.resp = [kind |-> "result", code |-> 0, body |-> "success"]

\* C9 witness: a well-formed request was accepted by the engine.
C9_Witness ==
    WellFormed(answered.req) /\ answered.res = OkOutcome /\ answered.calls = 1

LacksField(req) ==
    req \in Requests /\ req.path = V1Path /\ req.fields # FieldNames

\* C10: a request to /v1 whose params lack onion or comsig is answered with
\* an invalid-params error (-32602) that names a field it lacks, without the
\* engine's swap being invoked or the mutex being locked for it; no handler
\* is ever at the mutex or in the engine with such a request.
C10_MissingFieldRejected ==
    /\ LacksField(answered.req) =>
          /\ \E f \in FieldNames \ answered.req.fields :
                answered.resp =
                    [kind |-> "error", code |-> -32602,
                     body |-> "Invalid params: missing field '" \o f \o "'."]
          /\ answered.res = NoOutcome
          /\ answered.calls = 0
          /\ answered.acq = 0
    /\ \A h \in Handlers :
          hpc[h] \in {"lock", "swap"} => WellFormed(hreq[h])

\* C10 witness: a request holding onion but no comsig has been answered.
C10_Witness ==
    /\ answered.req = [path |-> V1Path, fields |-> {"onion"}]
    /\ answered.resp.kind = "error"


C12_OnlyV1Served ==
    /\ (answered.req \in Requests /\ answered.req.path # "/v1") =>
          /\ answered.resp =
                 [kind |-> "http400", code |-> 0, body |-> "Only v1 supported"]
          /\ answered.res = NoOutcome
          /\ answered.acq = 0
          /\ answered.calls = 0
    /\ \A h \in Handlers :
          hpc[h] # "idle" => (hreq[h].path = "/v1" /\ hcalls[h] <= 1)

\* C12 witness: an otherwise well-formed swap request sent to /v2 was refused.
C12_Witness ==
    /\ answered.req = [path |-> "/v2", fields |-> FieldNames]
    /\ answered.resp.kind = "http400"


\* C13: once the stop signal is set the round thread finishes at most the
\* iteration it is in: at most one more sleep completes and at most one more
\* round is invoked before the thread observes the signal.
C13_StopWithinOneTick ==
    /\ lateTicks <= 1
    /\ lateRounds <= 1
    /\ lateTicks = 1 => spc \in {"lock", "round", "check", "panicked"}
    /\ (lateRounds = 1 /\ lateTicks = 0) => spc \in {"round", "check", "panicked"}

\* C13 witness: the signal was set during a sleep that ended in a round, and
\* the thread is at the check that observes it.
C13_Witness ==
    stop_state /\ lateTicks = 1 /\ lateRounds = 1 /\ spc = "check"


(* --------------------------- fairness --------------------------------- *)
\* every thread that can take its next step eventually takes it: the round
\* thread, listen, and a handler that is past the dispatcher (every engine
\* call ends). Nothing is assumed about when requests arrive or the stop
\* signal is set, and std::sync::Mutex promises no order among the threads
\* waiting in lock(): a waiter is only sure to get the mutex if it stays free.
Fairness ==
    /\ WF_vars(SchedCheck)
    /\ WF_vars(SchedClose)
    /\ WF_vars(SchedTick)
    /\ WF_vars(SchedLock)
    /\ WF_vars(SchedRoundReturn)
    /\ WF_vars(CoordWait)
    /\ WF_vars(CoordJoin)
    /\ WF_vars(CoordReturn)
    /\ \A h \in Handlers : WF_vars(HandlerLock(h))
    /\ \A h \in Handlers : WF_vars(HandlerSwapReturn(h))

SpecFair == Init /\ [][Next]_vars /\ Fairness

\* C14 (as claimed): whenever the round thread waits for the engine mutex it
\* eventually stops waiting, whatever the request handlers do.
C14_SchedulerAcquires ==
    (spc = "lock") ~> (spc # "lock")

\* a step of a thread of the program (not of its environment)
ThreadStep ==
    \/ SchedCheck \/ SchedClose \/ SchedTick \/ SchedLock \/ SchedRoundReturn
    \/ CoordWait \/ CoordJoin \/ CoordReturn
    \/ \E h \in Handlers : HandlerLock(h) \/ HandlerSwapReturn(h)

\* C15 (as claimed): with the stop signal set, listen has returned or some
\* thread can still take a step towards it: the shutdown is never stuck.
C15_ShutdownNeverStuck ==
    stop_state => (cpc = "returned" \/ ENABLED ThreadStep)

\* C15 in its temporal form (under SpecFair): once the stop signal is set,
\* listen eventually returns.
C15_ListenReturns ==
    stop_state ~> (cpc = "returned")


\* C16 (as claimed): a request that parses is answered exactly once, after
\* exactly one lock() and one invocation of the engine's swap, and the answer
\* is the one that invocation's result determines.
C16_OneCallOneResponse ==
    /\ WellFormed(answered.req) =>
          /\ answered.acq = 1
          /\ answered.calls = 1
          /\ answered.res \in {OkOutcome} \cup SwapErrors
          /\ answered.resp = SwapResult(answered.res)
    /\ \A h \in Handlers : hacq[h] <= 1 /\ hcalls[h] <= 1

\* C17 (as claimed): the counter stays within 0 .. interval_s - 1 and the
\* advance never ends the round thread, for every interval_s including 0.
C17_CounterInRange ==
    /\ ticks > 0 => (0 <= secs /\ secs < interval_s)
    /\ ~(interval_s = 0 /\ spc = "panicked")


\* C18: the round thread owns the mutex guard exactly while execute_round is
\* running: never while it checks the stop signal, sleeps, waits in lock(),
\* closes the transport or after it ended; so a handler waiting for a guard
\* that the round thread owns is waiting for a running round.
C18_GuardOnlyDuringRound ==
    /\ Sched \in holder <=> spc = "round"
    /\ \A h \in Handlers :
          (hpc[h] = "lock" /\ Sched \in holder) => spc = "round"

\* C18 witness: a handler waits in lock() while a round is running, and the
\* round thread has been through sleeps and checks before.
C18_Witness ==
    /\ spc = "round" /\ Sched \in holder /\ rounds >= 2
    /\ \E h \in Handlers : hpc[h] = "lock"

\* how often the round thread has closed the transport
Closes == Cardinality({i \in 1..Len(events) : events[i] = "transport_closed"})

\* C19 (as claimed): the round thread closes the transport at most once, and
\* while the stop signal has never been set it has not closed the transport
\* and is still in its loop.
C19_CloseOnlyAfterStop ==
    /\ Closes <= 1
    /\ ~stop_state =>
          (Closes = 0 /\ spc \in {"check", "sleep", "lock", "round"})

\* a step of the round thread
SchedStep ==
    SchedCheck \/ SchedClose \/ SchedTick \/ SchedLock \/ SchedRoundReturn

\* C20: with the transport closed from outside and the stop signal not
\* observed, the round thread is not stopped by it (it has not left its loop
\* through the stop path and its next step is not held up), and listen has
\* not got past the join; listen gets past it only with the signal set and
\* observed.
C20_ExternalCloseDoesNotStop ==
    /\ cpc \in {"joined", "returned"} => (stop_state /\ StopObserved)
    /\ (transport = "closed" /\ ~StopObserved) =>
          /\ spc \notin {"close", "done"}
          /\ cpc \in {"wait", "join", "panicked"}
          /\ spc \in {"check", "sleep", "round"} => ENABLED SchedStep

\* C20 witness: listen is blocked in the join after an outside close, the
\* stop signal is not set, and the round thread is running a further round.
C20_Witness ==
    /\ cpc = "join" /\ transport = "closed" /\ ~stop_state
    /\ spc = "round" /\ rounds >= 2

====
